---- MODULE Spec2Model ----
(***************************************************************************)
(* Metadata Quality Assessment (MQA) for the Berlin Open Data Portal.      *)
(*                                                                         *)
(* Model of src/src/metadata_quality_assessment.py (the scoring engine and *)
(* the standard batch driver) and of the run of main() in                  *)
(* src/src/run_metadata_assessment.py (batch loop, report, detailed        *)
(* report of the first record).                                            *)
(*                                                                         *)
(* Python values are tagged records:                                       *)
(*   None -> [t |-> "none"]        str  -> [t |-> "str",  s |-> "..."]     *)
(*   int/float -> [t |-> "num", n] list -> [t |-> "list", l |-> <<...>>]   *)
(*   dict -> [t |-> "dict", d |-> function from keys to values]            *)
(* A dataset record (the `metadata` dict) is a function from its keys to   *)
(* values; an absent key is a key outside its DOMAIN.                      *)
(* A Python expression that may raise is modelled three-valued: "T", "F"   *)
(* or "X" (an exception propagates).                                       *)
(***************************************************************************)
EXTENDS Integers, Sequences, FiniteSets, TLC

VARIABLES
    pc,             \* position of the running function / of main()
    metadata,       \* the dataset record handed to the function under call
    field_name,     \* check_presence: the field asked for
    format_value,   \* check_format_in_register: its argument
    score,          \* get_final_rating: its argument
    ret,            \* the value returned by the function under call
    MQA_DIMENSIONS, \* the indicator table (module-level, weights per indicator)
    answers,        \* what the reachability checker answered (per scoring call)
    datasets,       \* main/process_datasets: the input records
    verbose,        \* main: args.verbose
    i,              \* batch loop: index of the next record
    results,        \* batch loop: the result rows
    errors,         \* batch loop: scoring exceptions caught so far
    scored,         \* indices of the records handed to calculate_mqa_score
    probed,         \* the URLs handed to requests.head, in call order
    df,             \* main: a row of the table as load_data gave it
    fetch,          \* fetch_metadata: its limit, offset, frames and response
    api             \* the catalog API: its records and the requests it got

vars == <<pc, metadata, field_name, format_value, score, ret, MQA_DIMENSIONS,
          answers, datasets, verbose, i, results, errors, scored, probed,
          df, fetch, api>>

-----------------------------------------------------------------------------
(* Bounds of the model *)

MaxResources == 2     \* longest "resources" list
MaxBatch == 3         \* longest batch of records
MaxStrLen == 3        \* longest generated string for check_presence
MaxFmtLen == 3        \* longest generated string for check_format_in_register
RatingMargin == 12    \* how far beyond 0..405 get_final_rating is called
Inflate == 45         \* points added to one weight in an adversarial table
MaxCatalog == 3       \* most records of the catalog behind the API
MaxLimit == 2         \* greatest page size of fetch_metadata
MaxRequests == 4      \* most requests of one fetch

-----------------------------------------------------------------------------
(* Python values *)

None == [t |-> "none"]
Str(s) == [t |-> "str", s |-> s]
Num(n) == [t |-> "num", n |-> n]
List(l) == [t |-> "list", l |-> l]
Dict(d) == [t |-> "dict", d |-> d]
EmptyDict == [k \in {} |-> None]

\* bool(value): the truth value Python gives a value
Truthy(v) ==
    CASE v.t = "none" -> FALSE
      [] v.t = "str"  -> v.s # ""
      [] v.t = "num"  -> v.n # 0
      [] v.t = "list" -> Len(v.l) > 0
      [] v.t = "dict" -> DOMAIN v.d # {}

\* three-valued `a and b` / `a or b` with Python's short circuit; b is only
\* looked at when a does not decide, so an exception in b is not raised
\* when a decides.
And3(a, b) == IF a = "T" THEN b ELSE a
Or3(a, b) == IF a = "F" THEN b ELSE a
B3(b) == IF b THEN "T" ELSE "F"

-----------------------------------------------------------------------------
(* str.lower() and str.strip() *)

UpperCase == "ABCDEFGHIJKLMNOPQRSTUVWXYZ"
LowerCase == "abcdefghijklmnopqrstuvwxyz"
Whitespace == {" ", "\t", "\n"}

\* the lower-case letter of every upper-case letter
LowerOf ==
    [c \in {SubSeq(UpperCase, k, k) : k \in 1..Len(UpperCase)} |->
        LET k == CHOOSE k \in 1..Len(UpperCase) : SubSeq(UpperCase, k, k) = c
        IN SubSeq(LowerCase, k, k)]

LowerChar(c) == IF c \in DOMAIN LowerOf THEN LowerOf[c] ELSE c

RECURSIVE Lower(_)
Lower(s) == IF s = "" THEN "" ELSE LowerChar(Head(s)) \o Lower(Tail(s))

RECURSIVE LStrip(_)
LStrip(s) == IF s # "" /\ Head(s) \in Whitespace THEN LStrip(Tail(s)) ELSE s

RECURSIVE RStrip(_)
RStrip(s) ==
    IF s # "" /\ SubSeq(s, Len(s), Len(s)) \in Whitespace
    THEN RStrip(SubSeq(s, 1, Len(s) - 1))
    ELSE s

Strip(s) == RStrip(LStrip(s))

\* Python's `a in b` for two strings
IsSubstring(a, b) ==
    \E k \in 0..(Len(b) - Len(a)) : SubSeq(b, k + 1, k + Len(a)) = a

\* Python's `x in seq` for a list or tuple
InList(x, seq) == \E k \in 1..Len(seq) : seq[k] = x

-----------------------------------------------------------------------------
(* Constants and configuration *)

ACCEPTED_MIME_TYPES ==
    << "text/csv", "application/json", "application/xml",
       "application/geopackage+sqlite3", "application/gml+xml",
       "application/vnd.ms-excel",
       "application/vnd.openxmlformats-officedocument.spreadsheetml.sheet",
       "application/zip", "application/pdf", "application/wfs",
       "application/wms" >>

NON_PROPRIETARY_FORMATS ==
    << "csv", "json", "xml", "gml", "geojson", "gpkg", "txt", "markdown", "md",
       "html", "htm", "zip", "rdf", "nt", "ttl", "n3", "jsonld", "trig", "wfs",
       "wms" >>

MACHINE_READABLE_FORMATS ==
    << "csv", "json", "xml", "rdf", "nt", "ttl", "n3", "jsonld", "trig",
       "geojson", "gpkg", "gml", "xlsx", "xls", "ods", "wfs" >>

VALID_DCAT_AP_DE_LICENSES ==
    << "cc-zero", "cc-by", "cc-by-sa", "cc-by/4.0", "cc-nc",
       "dl-de-zero-2.0", "dl-de-by-2.0", "odc-odbl", "CC BY 3.0 DE",
       "other-closed" >>

HIDDEN_NULLS ==
    << "", "null", "[]", "{}", "nan", "none", "ohne angabe",
       "keine angabe", "nichts", "N/A", "n/a" >>

common_formats ==
    << "csv", "json", "xml", "wfs", "wms", "pdf", "zip", "xls", "xlsx",
       "html", "geojson", "gml", "kml", "shp", "gpkg", "gis" >>

Dimensions ==
    << "Findability", "Accessibility", "Interoperability", "Reusability",
       "Context" >>

MAX_POINTS_PER_DIMENSION ==
    [Findability |-> 100, Accessibility |-> 100, Interoperability |-> 110,
     Reusability |-> 75, Context |-> 20]

-----------------------------------------------------------------------------
(* Helper functions *)

Max(a, b) == IF a >= b THEN a ELSE b
Min(a, b) == IF a <= b THEN a ELSE b

\* variant: the upper bound is not applied
clamp_score_unbounded(value, max_points) == Max(0, value)

clamp_score(value, max_points) == Max(0, Min(value, max_points))

\* variant: a list counts as present as soon as it has an element
check_presence_list_any(meta, field) ==
    IF field \notin DOMAIN meta THEN FALSE
    ELSE LET value == meta[field] IN
        CASE value.t = "none" -> FALSE
          [] value.t = "str" ->
                ~(InList(Lower(value.s), HIDDEN_NULLS) \/ Strip(value.s) = "")
          [] value.t = "list" -> Len(value.l) # 0
          [] value.t = "dict" -> DOMAIN value.d # {}
          [] OTHER -> TRUE

check_presence(meta, field) ==
    IF field \notin DOMAIN meta THEN FALSE
    ELSE LET value == meta[field] IN
        CASE value.t = "none" -> FALSE
          [] value.t = "str" ->
                ~(InList(Lower(value.s), HIDDEN_NULLS) \/ Strip(value.s) = "")
          [] value.t = "list" ->
                ~(Len(value.l) = 0
                    \/ \A k \in 1..Len(value.l) : ~Truthy(value.l[k]))
          [] value.t = "dict" -> DOMAIN value.d # {}
          [] OTHER -> TRUE

\* mime.lower() of every accepted MIME type
MimeLower == [k \in 1..Len(ACCEPTED_MIME_TYPES) |-> Lower(ACCEPTED_MIME_TYPES[k])]

\* the loops of check_format_in_register, with their early returns
RECURSIVE AnyMimeContains(_, _)
AnyMimeContains(format_lower, k) ==
    IF k > Len(ACCEPTED_MIME_TYPES) THEN FALSE
    ELSE IF IsSubstring(format_lower, MimeLower[k]) THEN TRUE
    ELSE AnyMimeContains(format_lower, k + 1)

RECURSIVE AnyCommonContained(_, _)
AnyCommonContained(format_lower, k) ==
    IF k > Len(common_formats) THEN FALSE
    ELSE IF IsSubstring(common_formats[k], format_lower) THEN TRUE
    ELSE AnyCommonContained(format_lower, k + 1)

\* variant: a common token has to match the whole format
check_format_in_register_exact(fmt) ==
    IF fmt = "" THEN FALSE
    ELSE LET format_lower == Lower(fmt) IN
        IF AnyMimeContains(format_lower, 1) THEN TRUE
        ELSE InList(format_lower, common_formats)

check_format_in_register(fmt) ==
    IF fmt = "" THEN FALSE
    ELSE LET format_lower == Lower(fmt) IN
        IF AnyMimeContains(format_lower, 1) THEN TRUE
        ELSE IF InList(format_lower, common_formats) THEN TRUE
        ELSE AnyCommonContained(format_lower, 1)

-----------------------------------------------------------------------------
(* Rating classifier *)

\* variant: the Excellent band starts one point early
get_final_rating_shifted(s) ==
    IF 350 <= s /\ s <= 405 THEN "Ausgezeichnet"
    ELSE IF 221 <= s /\ s <= 350 THEN "Gut"
    ELSE IF 121 <= s /\ s <= 220 THEN "Ausreichend"
    ELSE "Mangelhaft"

get_final_rating(s) ==
    IF 351 <= s /\ s <= 405 THEN "Ausgezeichnet"      \* Excellent
    ELSE IF 221 <= s /\ s <= 350 THEN "Gut"           \* Good
    ELSE IF 121 <= s /\ s <= 220 THEN "Ausreichend"   \* Sufficient
    ELSE "Mangelhaft"                                 \* Poor

-----------------------------------------------------------------------------
(* Resource extractors *)

\* `for x in value`: the items Python iterates over, or a TypeError
Iterable(v) == v.t \in {"list", "str", "dict"}

RECURSIVE KeysInOrder(_)
KeysInOrder(keys) ==
    IF keys = {} THEN << >>
    ELSE LET k == CHOOSE k \in keys : TRUE
         IN << Str(k) >> \o KeysInOrder(keys \ {k})

Items(v) ==
    CASE v.t = "list" -> v.l
      [] v.t = "str"  -> [k \in 1..Len(v.s) |-> Str(SubSeq(v.s, k, k))]
      [] v.t = "dict" -> KeysInOrder(DOMAIN v.d)

\* the loop shared by extract_resources_formats/_mimetypes/_urls: the values
\* of `key` over the resources, lower-cased, null-like ones dropped.
\* exc: a truthy value that is not a string has no .strip()
RECURSIVE ExtractLoop(_, _, _, _)
ExtractLoop(resources, key, k, acc) ==
    IF k > Len(resources) THEN [exc |-> FALSE, v |-> acc]
    ELSE LET resource == resources[k] IN
        IF resource.t = "dict" /\ key \in DOMAIN resource.d
        THEN LET value == resource.d[key] IN
            IF ~Truthy(value) THEN ExtractLoop(resources, key, k + 1, acc)
            ELSE IF value.t # "str" THEN [exc |-> TRUE, v |-> << >>]
            ELSE IF Strip(value.s) # "" /\ ~InList(Lower(value.s), HIDDEN_NULLS)
                 THEN ExtractLoop(resources, key, k + 1,
                                  Append(acc, Lower(value.s)))
                 ELSE ExtractLoop(resources, key, k + 1, acc)
        ELSE ExtractLoop(resources, key, k + 1, acc)

extract_resources_field(meta, key) ==
    IF "resources" \in DOMAIN meta /\ meta["resources"].t = "list"
    THEN ExtractLoop(meta["resources"].l, key, 1, << >>)
    ELSE [exc |-> FALSE, v |-> << >>]

extract_resources_formats(meta) == extract_resources_field(meta, "format")
extract_resources_mimetypes(meta) == extract_resources_field(meta, "mimetype")
extract_resources_urls(meta) == extract_resources_field(meta, "url")

\* variant: more than one value is asked for
NonEmpty3_two(ex) == IF ex.exc THEN "X" ELSE B3(Len(ex.v) > 1)

\* `len(extract(...)) > 0`
NonEmpty3(ex) == IF ex.exc THEN "X" ELSE B3(Len(ex.v) > 0)

\* `any(check_format_in_register(fmt) for fmt in extract(...))`
AnyRegistered(ex) ==
    IF ex.exc THEN "X"
    ELSE B3(\E k \in 1..Len(ex.v) : check_format_in_register(ex.v[k]))

\* `any(mime in list for mime in extract(...))`
AnyIn(ex, list) ==
    IF ex.exc THEN "X" ELSE B3(\E k \in 1..Len(ex.v) : InList(ex.v[k], list))

\* `any(fmt.lower() in list for fmt in extract(...))`
AnyLowerIn(ex, list) ==
    IF ex.exc THEN "X"
    ELSE B3(\E k \in 1..Len(ex.v) : InList(Lower(ex.v[k]), list))

-----------------------------------------------------------------------------
(* Reachability checker *)

\* what requests.head may do for a URL: raise, or answer with a status code
Responses ==
    {[raised |-> TRUE, status_code |-> 0]}
        \cup {[raised |-> FALSE, status_code |-> c] : c \in {200, 404}}

\* variant: the except clause answers True
is_url_accessible_except_true(url, response) ==
    IF url.t # "str" \/ response.raised THEN TRUE
    ELSE response.status_code < 400

\* is_url_accessible: any exception is swallowed; a value that is not a
\* string makes requests raise
is_url_accessible(url, response) ==
    IF url.t # "str" \/ response.raised THEN FALSE
    ELSE response.status_code < 400

-----------------------------------------------------------------------------
(* 1. MQA indicators for each dimension *)

\* `any(is_url_accessible(url) for url in extract_resources_urls(meta))`
AnyAccessible(ex, reach) ==
    IF ex.exc THEN "X"
    ELSE B3(\E k \in 1..Len(ex.v) :
                is_url_accessible(Str(ex.v[k]), reach.download[k]))

IsNonEmptyList(meta, field) ==
    And3(B3(check_presence(meta, field)),
         B3(meta[field].t = "list" /\ Len(meta[field].l) > 0))

\* `any(check_presence(resource, "size") for resource in meta["resources"]
\*      if isinstance(resource, dict))`
AnyResourceSize(meta) ==
    IF ~Iterable(meta["resources"]) THEN "X"
    ELSE LET rs == Items(meta["resources"]) IN
        B3(\E k \in 1..Len(rs) :
            rs[k].t = "dict" /\ check_presence(rs[k].d, "size"))

\* `meta.get("license_id", "").lower() in [lic.lower() for lic in ...]`
LicensesLower ==
    [k \in 1..Len(VALID_DCAT_AP_DE_LICENSES) |->
        Lower(VALID_DCAT_AP_DE_LICENSES[k])]

LicenseInVocabulary(meta) ==
    IF meta["license_id"].t # "str" THEN "X"
    ELSE B3(InList(Lower(meta["license_id"].s), LicensesLower))

\* the check_func of the indicator called `name`, on `meta`;
\* reach.primary and reach.download[k] are the checker's responses for the
\* primary url and for the k-th extracted resource url
check_func(name, meta, reach) ==
    CASE name = "Keywords" -> IsNonEmptyList(meta, "tags")
      [] name = "Categories" -> IsNonEmptyList(meta, "groups")
      [] name = "Spatial Coverage" ->
            B3(check_presence(meta, "geographical_coverage"))
      [] name = "Temporal Coverage" ->
            B3(check_presence(meta, "temporal_coverage_from")
                \/ check_presence(meta, "temporal_coverage_to"))
      [] name = "Access URL Accessibility" ->
            B3(check_presence(meta, "url")
                /\ is_url_accessible(meta["url"], reach.primary))
      [] name = "Download URL Presence" ->
            And3(B3(check_presence(meta, "resources")),
                 NonEmpty3(extract_resources_urls(meta)))
      [] name = "Download URL Accessibility" ->
            And3(B3(check_presence(meta, "resources")),
                 AnyAccessible(extract_resources_urls(meta), reach))
      [] name = "Format" ->
            And3(B3(check_presence(meta, "resources")),
                 NonEmpty3(extract_resources_formats(meta)))
      [] name = "Media Type" ->
            And3(B3(check_presence(meta, "resources")),
                 NonEmpty3(extract_resources_mimetypes(meta)))
      [] name = "Format/Media Type from Vocabulary" ->
            Or3(And3(B3(check_presence(meta, "resources")),
                     AnyRegistered(extract_resources_formats(meta))),
                AnyIn(extract_resources_mimetypes(meta), ACCEPTED_MIME_TYPES))
      [] name = "Non-proprietary" ->
            And3(B3(check_presence(meta, "resources")),
                 AnyLowerIn(extract_resources_formats(meta),
                            NON_PROPRIETARY_FORMATS))
      [] name = "Machine-readability" ->
            And3(B3(check_presence(meta, "resources")),
                 AnyLowerIn(extract_resources_formats(meta),
                            MACHINE_READABLE_FORMATS))
      [] name = "DCAT-AP.de Conformity" -> "T"
      [] name = "License" -> B3(check_presence(meta, "license_id"))
      [] name = "License Vocabulary" ->
            And3(B3(check_presence(meta, "license_id")),
                 LicenseInVocabulary(meta))
      [] name = "Access Rights Level" -> "T"
      [] name = "Access Rights from Vocabulary" -> "T"
      [] name = "Contact Point" ->
            B3(check_presence(meta, "maintainer")
                \/ check_presence(meta, "maintainer_email"))
      [] name = "Publisher" ->
            B3(check_presence(meta, "author")
                \/ check_presence(meta, "organization.title"))
      [] name = "Usage Terms" -> B3(check_presence(meta, "license_title"))
      [] name = "Byte Size" ->
            And3(B3(check_presence(meta, "resources")), AnyResourceSize(meta))
      [] name = "Release Date" -> B3(check_presence(meta, "date_released"))
      [] name = "Modification Date" -> B3(check_presence(meta, "date_updated"))

\* the URLs that the generator of `any(is_url_accessible(url) for url in
\* urls)` hands to the checker: any() stops at the first reachable one
RECURSIVE ProbedUntilAccessible(_, _, _)
ProbedUntilAccessible(urls, reach, k) ==
    IF k > Len(urls) THEN << >>
    ELSE IF is_url_accessible(Str(urls[k]), reach.download[k])
    THEN << Str(urls[k]) >>
    ELSE << Str(urls[k]) >> \o ProbedUntilAccessible(urls, reach, k + 1)

ProbedResources(ex, reach) ==
    IF ex.exc THEN << >> ELSE ProbedUntilAccessible(ex.v, reach, 1)

\* the values handed to is_url_accessible while the check_func of the
\* indicator `name` runs
probes_of(name, meta, reach) ==
    CASE name = "Access URL Accessibility" ->
            IF check_presence(meta, "url") THEN << meta["url"] >> ELSE << >>
      [] name = "Download URL Accessibility" ->
            IF check_presence(meta, "resources")
            THEN ProbedResources(extract_resources_urls(meta), reach)
            ELSE << >>
      [] OTHER -> << >>

Ind(name, max_points) == [name |-> name, max_points |-> max_points]

INDICATORS_FINDABILITY ==
    << Ind("Keywords", 30), Ind("Categories", 30),
       Ind("Spatial Coverage", 20), Ind("Temporal Coverage", 20) >>

INDICATORS_ACCESSIBILITY ==
    << Ind("Access URL Accessibility", 50), Ind("Download URL Presence", 20),
       Ind("Download URL Accessibility", 30) >>

INDICATORS_INTEROPERABILITY ==
    << Ind("Format", 20), Ind("Media Type", 10),
       Ind("Format/Media Type from Vocabulary", 10),
       Ind("Non-proprietary", 20), Ind("Machine-readability", 20),
       Ind("DCAT-AP.de Conformity", 30) >>

INDICATORS_REUSABILITY ==
    << Ind("License", 20), Ind("License Vocabulary", 10),
       Ind("Access Rights Level", 10), Ind("Access Rights from Vocabulary", 5),
       Ind("Contact Point", 20), Ind("Publisher", 10) >>

INDICATORS_CONTEXT ==
    << Ind("Usage Terms", 5), Ind("Byte Size", 5), Ind("Release Date", 5),
       Ind("Modification Date", 5) >>

\* the table as the module defines it
ReferenceTable ==
    [Findability |-> INDICATORS_FINDABILITY,
     Accessibility |-> INDICATORS_ACCESSIBILITY,
     Interoperability |-> INDICATORS_INTEROPERABILITY,
     Reusability |-> INDICATORS_REUSABILITY,
     Context |-> INDICATORS_CONTEXT]

-----------------------------------------------------------------------------
(* 2. Main scoring function *)

Points(ind, passed) == IF passed = "T" THEN ind.max_points ELSE 0

\* the inner loop of get_best_distribution_score over the indicators:
\* resource_score, or -1 when a check raises
RECURSIVE ResourceScore(_, _, _, _, _)

\* its body for the k-th indicator, whose check answered `passed`
ResourceStep(resource_metadata, indicators, reach, k, resource_score, passed) ==
    IF passed = "X" THEN -1
    ELSE ResourceScore(resource_metadata, indicators, reach, k + 1,
                       resource_score + Points(indicators[k], passed))

ResourceScore(resource_metadata, indicators, reach, k, resource_score) ==
    IF k > Len(indicators) THEN resource_score
    ELSE ResourceStep(resource_metadata, indicators, reach, k, resource_score,
                      check_func(indicators[k].name, resource_metadata, reach))

\* variant: the view holds the current resource as its only resource
ResourceMetadata_scoped(meta, resource) ==
    ("resources" :> List(<< resource >>)) @@ ("resource" :> resource) @@ meta

\* resource_metadata = {**metadata, "resource": resource}
ResourceMetadata(meta, resource) == ("resource" :> resource) @@ meta

\* variant: the resource scores are added up
KeepBest_sum(max_score, resource_score) == max_score + resource_score

\* keep the best resource score seen so far
KeepBest(max_score, resource_score) == Max(max_score, resource_score)

\* the outer loop over the resources
RECURSIVE BestLoop(_, _, _, _, _, _)

\* its body for the k-th resource, which earned resource_score
BestStep(meta, indicators, reach, rs, k, max_score, resource_score) ==
    IF resource_score < 0 THEN [exc |-> TRUE, v |-> 0]
    ELSE BestLoop(meta, indicators, reach, rs, k + 1,
                  KeepBest(max_score, resource_score))

BestLoop(meta, indicators, reach, rs, k, max_score) ==
    IF k > Len(rs) THEN [exc |-> FALSE, v |-> max_score]
    ELSE BestStep(meta, indicators, reach, rs, k, max_score,
                  ResourceScore(ResourceMetadata(meta, rs[k]), indicators,
                                reach, 1, 0))

get_best_distribution_score(meta, indicators, reach) ==
    IF "resources" \notin DOMAIN meta \/ ~Truthy(meta["resources"])
    THEN [exc |-> FALSE, v |-> 0]
    ELSE IF ~Iterable(meta["resources"]) THEN [exc |-> TRUE, v |-> 0]
    ELSE BestLoop(meta, indicators, reach, Items(meta["resources"]), 1, 0)

\* the loop over the indicators of one dimension: the indicator details and
\* the sum of their points
RECURSIVE IndicatorLoop(_, _, _, _, _, _)

\* its body for the indicator ind, whose check answered `passed`
IndicatorStep(meta, indicators, reach, k, dim_score, dimension_details, ind, passed) ==
    IF passed = "X" THEN [exc |-> TRUE, dim_score |-> 0, details |-> << >>]
    ELSE IndicatorLoop(meta, indicators, reach, k + 1,
            dim_score + Points(ind, passed),
            Append(dimension_details,
                   [indicator |-> ind.name,
                    max_points |-> ind.max_points,
                    points |-> Points(ind, passed),
                    passed |-> (passed = "T")]))

IndicatorLoop(meta, indicators, reach, k, dim_score, dimension_details) ==
    IF k > Len(indicators)
    THEN [exc |-> FALSE, dim_score |-> dim_score, details |-> dimension_details]
    ELSE IndicatorStep(meta, indicators, reach, k, dim_score,
                       dimension_details, indicators[k],
                       check_func(indicators[k].name, meta, reach))

\* Interoperability: the score is the best resource score, the details are
\* those of the record as a whole
InteroperabilityPass(best, loop) ==
    IF best.exc THEN [exc |-> TRUE, dim_score |-> 0, details |-> << >>]
    ELSE [loop EXCEPT !.dim_score = best.v]

\* one pass of the loop over the dimensions, before the clamp
DimensionPass(meta, table, reach, dimension_name) ==
    IF dimension_name = "Interoperability"
    THEN InteroperabilityPass(
            get_best_distribution_score(meta, table[dimension_name], reach),
            IndicatorLoop(meta, table[dimension_name], reach, 1, 0, << >>))
    ELSE IndicatorLoop(meta, table[dimension_name], reach, 1, 0, << >>)

Raised == [raised |-> TRUE]

\* variant: the total is overwritten
AddToTotal_assign(total_score, dim_score) == dim_score

\* total_score += dim_score
AddToTotal(total_score, dim_score) == total_score + dim_score

\* the loop over the dimensions
RECURSIVE DimensionLoop(_, _, _, _, _, _, _)

\* its tail for one dimension, clamped to dim_score
DimensionTail(meta, table, reach, k, dimension_scores, total_score, details, pass, dim_score) ==
    DimensionLoop(meta, table, reach, k + 1,
                  (Dimensions[k] :> dim_score) @@ dimension_scores,
                  AddToTotal(total_score, dim_score),
                  (Dimensions[k] :> pass.details) @@ details)

\* its body for the k-th dimension, whose pass gave `pass`
DimensionStep(meta, table, reach, k, dimension_scores, total_score, details, pass) ==
    IF pass.exc THEN Raised
    ELSE DimensionTail(meta, table, reach, k, dimension_scores, total_score,
                       details, pass,
                       clamp_score(pass.dim_score,
                                   MAX_POINTS_PER_DIMENSION[Dimensions[k]]))

DimensionLoop(meta, table, reach, k, dimension_scores, total_score, details) ==
    IF k > Len(Dimensions)
    THEN [raised |-> FALSE,
          dimension_scores |-> dimension_scores,
          total_score |-> total_score,
          rating |-> get_final_rating(total_score),
          detailed_results |-> details]
    ELSE DimensionStep(meta, table, reach, k, dimension_scores, total_score,
                       details,
                       DimensionPass(meta, table, reach, Dimensions[k]))

calculate_mqa_score(meta, table, reach) ==
    DimensionLoop(meta, table, reach, 1, EmptyDict, 0, EmptyDict)

\* the values handed to is_url_accessible during the loop over the
\* indicators of one dimension, which ends at the first check that raises
RECURSIVE ProbedLoop(_, _, _, _)
ProbedLoop(meta, indicators, reach, k) ==
    IF k > Len(indicators) THEN << >>
    ELSE probes_of(indicators[k].name, meta, reach)
            \o (IF check_func(indicators[k].name, meta, reach) = "X"
                THEN << >>
                ELSE ProbedLoop(meta, indicators, reach, k + 1))

\* the values handed to is_url_accessible during calculate_mqa_score: only
\* the Accessibility indicators call it, and no Findability check raises
Probed(meta, table, reach) == ProbedLoop(meta, table["Accessibility"], reach, 1)

-----------------------------------------------------------------------------
(* Inputs *)

Unused == << >>

\* the run does not fetch
NotFetching == [limit |-> 0, offset |-> 0, frames |-> << >>, res |-> Unused]
NoApi == [catalog |-> << >>, endless |-> FALSE, requested |-> << >>,
          failed |-> FALSE]

\* all strings over `alphabet` of length at most n
RECURSIVE StringsUpTo(_, _)
StringsUpTo(alphabet, n) ==
    IF n = 0 THEN {""}
    ELSE LET shorter == StringsUpTo(alphabet, n - 1)
         IN shorter \cup {s \o c : s \in shorter, c \in alphabet}

Padded(strings) ==
    strings \cup {" " \o s : s \in strings} \cup {s \o " " : s \in strings}
        \cup {" " \o s \o " " : s \in strings}

\* strings handed to check_presence
PresenceStrings ==
    StringsUpTo({"n", "N", "a", "A", "/", " "}, MaxStrLen)
        \cup Padded({"null", "NULL", "Null", "[]", "{}", "nan", "NaN", "none",
                     "None", "ohne angabe", "Ohne Angabe", "keine angabe",
                     "KEINE ANGABE", "nichts", "Nichts", "n/a", "N/A", "N/a",
                     "Berlin", "nullx", "0", "[ ]", "keine", "\t", "n/a\n"})

Falsy == {None, Str(""), Num(0), List(<< >>), Dict(EmptyDict)}

ListItems == Falsy \cup {Str("a"), Str(" "), Str("n/a"), Num(1), List(<<None>>)}

RECURSIVE SeqsUpTo(_, _)
SeqsUpTo(items, n) ==
    IF n = 0 THEN {<< >>}
    ELSE LET shorter == SeqsUpTo(items, n - 1)
         IN shorter \cup {Append(q, x) : q \in shorter, x \in items}

\* values handed to check_presence
PresenceValues ==
    {Str(s) : s \in PresenceStrings}
        \cup {None, Num(0), Num(7), Num(-1)}
        \cup {List(l) : l \in SeqsUpTo(ListItems, MaxResources)}
        \cup {Dict(EmptyDict), Dict("title" :> None), Dict("title" :> Str("x")),
              Dict(("a" :> Num(0)) @@ ("b" :> Str("")))}

\* format strings handed to check_format_in_register
FormatStrings ==
    StringsUpTo({"c", "s", "v", "X", "L", "/"}, MaxFmtLen)
        \cup {ACCEPTED_MIME_TYPES[k] : k \in 1..Len(ACCEPTED_MIME_TYPES)}
        \cup {ACCEPTED_MIME_TYPES[k] \o "; charset=utf-8" :
                k \in 1..Len(ACCEPTED_MIME_TYPES)}
        \cup {"x-" \o ACCEPTED_MIME_TYPES[k] : k \in 1..Len(ACCEPTED_MIME_TYPES)}
        \cup {common_formats[k] : k \in 1..Len(common_formats)}
        \cup {common_formats[k] \o "-Datei" : k \in 1..Len(common_formats)}
        \cup {"CSV", "Json", "EXCEL", "excel", "Application/PDF", "sheet",
              "application", "xyz-unknown", "doc", "docx", "txt", "rdf", "ods",
              "text", "text/plain", "TEXT/CSV", "ms-excel", "sqlite3", " ",
              "geopackage", "a", "/", "+", "xl", "ESRI Shapefile", "GeoJSON",
              "WFS-Dienst", "APPLICATION/VND.MS-EXCEL;X"}

\* resources of a dataset
ResourcePool ==
    { Dict(("format" :> Str("CSV")) @@ ("mimetype" :> Str("text/csv"))
            @@ ("url" :> Str("http://a/x.csv")) @@ ("size" :> Num(100))),
      Dict(("format" :> Str("xyz-unknown")) @@ ("size" :> Str("n/a"))),
      Dict(("format" :> Str("XLSX")) @@ ("mimetype" :> Str("n/a"))
            @@ ("url" :> Str("HTTP://B"))),
      Dict(("mimetype" :> Str("Application/Zip")) @@ ("url" :> Str(" "))
            @@ ("format" :> None)),
      Dict("format" :> Num(5)),
      Dict("format" :> Str(" n/a ")),
      Str("CSV") }

ResourceLists(n) == {List(l) : l \in SeqsUpTo(ResourcePool, n)}

OtherResources == {None, Num(5), Str("[]"), Str("ab")}

NoFields == [k \in {} |-> None]

\* the fields of a record, per dimension that reads them
FindabilityFields ==
    { NoFields,
      ("tags" :> List(<<Dict("name" :> Str("verkehr"))>>))
        @@ ("groups" :> List(<<Dict("name" :> Str("transport"))>>))
        @@ ("geographical_coverage" :> Str("Berlin"))
        @@ ("temporal_coverage_from" :> Str("2020-01-01")),
      ("tags" :> Str("verkehr")) @@ ("groups" :> List(<< >>))
        @@ ("geographical_coverage" :> Str("Keine Angabe"))
        @@ ("temporal_coverage_from" :> None)
        @@ ("temporal_coverage_to" :> Str("2021-12-31")) }

UrlFields ==
    { NoFields, ("url" :> Str("https://daten.berlin.de/x")), ("url" :> Num(7)) }

ReusabilityFields ==
    { NoFields,
      ("license_id" :> Str("dl-de-by-2.0")) @@ ("maintainer" :> Str("Amt"))
        @@ ("author" :> Str("Senat")),
      ("license_id" :> Str("DL-DE-BY-2.0")) @@ ("maintainer" :> Str(""))
        @@ ("organization" :> Dict("title" :> Str("Senat"))),
      ("license_id" :> Str("custom")) @@ ("maintainer_email" :> Str("a@b.de"))
        @@ ("organization.title" :> Str("Senat")),
      ("license_id" :> Num(3)) }

ContextFields ==
    { NoFields,
      ("license_title" :> Str("Datenlizenz")) @@ ("date_released" :> Str("2020"))
        @@ ("date_updated" :> Str("2021")) }

IdFields == ("id" :> Str("a")) @@ ("title" :> Str("A"))

\* a record with none and a record with all of the fields outside "resources"
BareFields == IdFields

FullFields ==
    ("tags" :> List(<<Dict("name" :> Str("verkehr"))>>))
        @@ ("groups" :> List(<<Dict("name" :> Str("transport"))>>))
        @@ ("geographical_coverage" :> Str("Berlin"))
        @@ ("temporal_coverage_from" :> Str("2020-01-01"))
        @@ ("url" :> Str("https://daten.berlin.de/x"))
        @@ ("license_id" :> Str("dl-de-by-2.0")) @@ ("maintainer" :> Str("Amt"))
        @@ ("author" :> Str("Senat"))
        @@ ("license_title" :> Str("Datenlizenz"))
        @@ ("date_released" :> Str("2020")) @@ ("date_updated" :> Str("2021"))
        @@ IdFields

ResourcesFields(values) == {NoFields} \cup {("resources" :> v) : v \in values}

FewResources ==
    { List(<< >>),
      List(<< Dict(("format" :> Str("CSV")) @@ ("mimetype" :> Str("text/csv"))
                @@ ("url" :> Str("http://a/x.csv")) @@ ("size" :> Num(100))) >>) }

\* every resources value on a bare and on a full record, and every
\* combination of the other fields on few resources values
DatasetsWith(resourceValues) ==
    { b @@ res : b \in {BareFields, FullFields},
                 res \in ResourcesFields(resourceValues) }
    \cup
    { f @@ u @@ r @@ c @@ res @@ IdFields :
        f \in FindabilityFields, u \in UrlFields, r \in ReusabilityFields,
        c \in ContextFields, res \in ResourcesFields(FewResources) }

Datasets == DatasetsWith(ResourceLists(MaxResources) \cup OtherResources)

\* the responses the checker may give during one scoring call: one for the
\* primary url and one per extracted resource url
ReachesOf(primary_asked, ex) ==
    [primary : IF primary_asked THEN Responses
               ELSE {[raised |-> TRUE, status_code |-> 0]},
     download : [1..(IF ex.exc THEN 0 ELSE Len(ex.v)) -> Responses]]

Reaches(meta) ==
    ReachesOf(check_presence(meta, "url") /\ meta["url"].t = "str",
              extract_resources_urls(meta))

\* an indicator table in which the first indicator of one dimension weighs
\* Inflate points more
Inflated(dimension_name) ==
    [ReferenceTable EXCEPT
        ![dimension_name][1].max_points = @ + Inflate]

Tables ==
    {ReferenceTable} \cup {Inflated(Dimensions[k]) : k \in 1..Len(Dimensions)}

-----------------------------------------------------------------------------
(* Calls of the pure functions *)

\* a call of one function: its arguments, nothing else in progress
CallInit(m, f, fv, s, table) ==
    /\ pc = "call"
    /\ metadata = m
    /\ field_name = f
    /\ format_value = fv
    /\ score = s
    /\ ret = Unused
    /\ MQA_DIMENSIONS = table
    /\ answers = Unused
    /\ datasets = << >>
    /\ verbose = FALSE
    /\ i = 0
    /\ results = << >>
    /\ errors = 0
    /\ scored = << >>
    /\ probed = << >>
    /\ df = NoFields
    /\ fetch = NotFetching
    /\ api = NoApi

Return(value) ==
    /\ pc = "call"
    /\ pc' = "return"
    /\ ret' = value
    /\ UNCHANGED <<metadata, field_name, format_value, score, MQA_DIMENSIONS,
                   datasets, verbose, i, results, errors, scored,
                   df, fetch, api>>

\* get_final_rating(score)
RatingInit ==
    \E s \in (0 - RatingMargin)..(405 + RatingMargin) :
        CallInit(NoFields, "", "", s, ReferenceTable)

GetFinalRating ==
    Return(get_final_rating(score)) /\ UNCHANGED <<answers, probed>>

SpecRating == RatingInit /\ [][GetFinalRating]_vars

\* check_presence(metadata, field_name)
PresenceInit ==
    \E m \in {NoFields} \cup {("title" :> v) : v \in PresenceValues},
       f \in {"title", "author"} :
        CallInit(m, f, "", 0, ReferenceTable)

CheckPresence ==
    Return(check_presence(metadata, field_name))
        /\ UNCHANGED <<answers, probed>>

SpecPresence == PresenceInit /\ [][CheckPresence]_vars

\* check_format_in_register(format_value)
FormatInit ==
    \E f \in FormatStrings : CallInit(NoFields, "", f, 0, ReferenceTable)

CheckFormatInRegister ==
    Return(check_format_in_register(format_value))
        /\ UNCHANGED <<answers, probed>>

SpecFormat == FormatInit /\ [][CheckFormatInRegister]_vars

\* calculate_mqa_score(metadata), with the indicator table of the module
ScoreInit ==
    \E m \in Datasets : CallInit(m, "", "", 0, ReferenceTable)

CalculateMqaScore ==
    \E reach \in Reaches(metadata) :
        /\ Return(calculate_mqa_score(metadata, MQA_DIMENSIONS, reach))
        /\ answers' = reach
        /\ probed' = Probed(metadata, MQA_DIMENSIONS, reach)

SpecScore == ScoreInit /\ [][CalculateMqaScore]_vars

\* str.upper(), to write an identifier in capitals
UpperOf == [c \in {LowerOf[u] : u \in DOMAIN LowerOf} |->
                CHOOSE u \in DOMAIN LowerOf : LowerOf[u] = c]

RECURSIVE Upper(_)
Upper(s) ==
    IF s = "" THEN ""
    ELSE (IF Head(s) \in DOMAIN UpperOf THEN UpperOf[Head(s)] ELSE Head(s))
            \o Upper(Tail(s))

\* values of license_id: every identifier of the vocabulary as listed, in
\* small letters and in capitals, and others
LicenseValues ==
    {Str(VALID_DCAT_AP_DE_LICENSES[k]) : k \in 1..Len(VALID_DCAT_AP_DE_LICENSES)}
        \cup {Str(Lower(VALID_DCAT_AP_DE_LICENSES[k])) :
                k \in 1..Len(VALID_DCAT_AP_DE_LICENSES)}
        \cup {Str(Upper(VALID_DCAT_AP_DE_LICENSES[k])) :
                k \in 1..Len(VALID_DCAT_AP_DE_LICENSES)}
        \cup {Str("Dl-De-By-2.0"), Str("custom"), Str("cc-by-nc"), Str("cc"),
              Str("dl-de-by"), Str(" dl-de-by-2.0"), Str("dl-de-by-2.0 "),
              Str("dl-de-by-2.0,cc-by"), Str(""), Str(" "), Str("n/a"),
              Str(" n/a "), Str("None"), Str("null"), None, Num(0), Num(3),
              List(<< >>), List(<<Str("cc-by")>>)}

\* records that differ in their license_id
LicenseDatasets ==
    {BareFields, FullFields}
        \cup {("license_id" :> v) @@ b :
                v \in LicenseValues, b \in {BareFields, FullFields}}

\* calculate_mqa_score(metadata) on records that differ in their license_id
LicenseInit ==
    \E m \in LicenseDatasets : CallInit(m, "", "", 0, ReferenceTable)

SpecLicense == LicenseInit /\ [][CalculateMqaScore]_vars

\* calculate_mqa_score(metadata) under an indicator table whose weights were
\* chosen to exceed a ceiling
AdversarialInit ==
    \E m \in DatasetsWith(ResourceLists(1) \cup OtherResources),
       table \in Tables :
        CallInit(m, "", "", 0, table)

SpecAdversarial == AdversarialInit /\ [][CalculateMqaScore]_vars

-----------------------------------------------------------------------------
(* 3. Batch processing: process_datasets and the run of main() *)

\* dataset.get(key): None for an absent key
Get(dataset, key) == IF key \in DOMAIN dataset THEN dataset[key] ELSE None

\* dataset.get(key, default)
GetOr(dataset, key, default) ==
    IF key \in DOMAIN dataset THEN dataset[key] ELSE default

\* len(value) raises for a value without a length
HasLen(v) == v.t \in {"list", "str", "dict"}

\* `dataset.get("organization", {}).get("title", default)
\*      if isinstance(dataset.get("organization"), dict) else default`
OrganizationTitle(dataset, default) ==
    IF Get(dataset, "organization").t = "dict"
    THEN GetOr(dataset["organization"].d, "title", default)
    ELSE default

\* the flat row of one scored record
ResultRow(dataset, mqa_result, default_id, default_title, default_org) ==
    [id |-> GetOr(dataset, "id", default_id),
     title |-> GetOr(dataset, "title", default_title),
     organization |-> OrganizationTitle(dataset, default_org),
     total_score |-> mqa_result.total_score,
     rating |-> mqa_result.rating,
     Findability_score |-> mqa_result.dimension_scores["Findability"],
     Accessibility_score |-> mqa_result.dimension_scores["Accessibility"],
     Interoperability_score |-> mqa_result.dimension_scores["Interoperability"],
     Reusability_score |-> mqa_result.dimension_scores["Reusability"],
     Context_score |-> mqa_result.dimension_scores["Context"]]

\* variant: the row is put in front
AddRow_front(rows, row) == << row >> \o rows

\* results.append(result_row)
AddRow(rows, row) == Append(rows, row)

\* process_datasets line 569: the record is skipped
Skipped(dataset) ==
    ~Truthy(Get(dataset, "title")) \/ ~Truthy(Get(dataset, "id"))

NoResponses ==
    [primary |-> [raised |-> TRUE, status_code |-> 0], download |-> << >>]

\* records of a batch
BatchRecords ==
    { FullFields
        @@ ("resources" :> List(<< Dict(("format" :> Str("CSV"))
                                        @@ ("size" :> Num(100))) >>)),
      ("id" :> Str("b")) @@ ("title" :> Str("B"))
        @@ ("organization" :> Dict("title" :> Str("Senat"))),
      ("id" :> Str("")) @@ ("title" :> Str("No id"))
        @@ ("license_id" :> Str("cc-by")),
      ("id" :> Str("c")) @@ ("title" :> None)
        @@ ("resources" :> List(<< >>)),
      ("id" :> Str("d")) @@ ("title" :> Str("D")) @@ ("resources" :> Num(5)) }

BatchInit ==
    /\ pc = "loop"
    /\ datasets \in SeqsUpTo(BatchRecords, MaxBatch)
    /\ verbose \in BOOLEAN
    /\ i = 1
    /\ results = << >>
    /\ errors = 0
    /\ scored = << >>
    /\ probed = << >>
    /\ df = NoFields
    /\ fetch = NotFetching
    /\ api = NoApi
    /\ answers = << >>
    /\ metadata = NoFields
    /\ field_name = ""
    /\ format_value = ""
    /\ score = 0
    /\ ret = Unused
    /\ MQA_DIMENSIONS = ReferenceTable

\* the try of process_datasets for one record, mqa_result being what
\* calculate_mqa_score gave
ProcessScored(dataset, mqa_result) ==
    IF mqa_result.raised
    THEN /\ errors' = errors + 1
         /\ UNCHANGED results
    ELSE /\ results' = AddRow(results, ResultRow(dataset, mqa_result, Str(""),
                                                 Str(""), Str("")))
         /\ UNCHANGED errors

\* one pass of the loop of process_datasets (standard run)
ProcessDataset ==
    /\ pc = "loop" /\ ~verbose /\ i <= Len(datasets)
    /\ IF Skipped(datasets[i])
       THEN /\ answers' = Append(answers, NoResponses)
            /\ UNCHANGED <<results, errors, scored, probed>>
       ELSE \E reach \in Reaches(datasets[i]) :
            /\ answers' = Append(answers, reach)
            /\ scored' = Append(scored, i)
            /\ probed' = probed \o Probed(datasets[i], MQA_DIMENSIONS, reach)
            /\ ProcessScored(datasets[i],
                    calculate_mqa_score(datasets[i], MQA_DIMENSIONS, reach))
    /\ i' = i + 1
    /\ UNCHANGED <<pc, metadata, field_name, format_value, score, ret,
                   MQA_DIMENSIONS, datasets, verbose,
                   df, fetch, api>>

\* the try of the verbose loop for one record, from the scoring call on
VerboseScored(dataset, result) ==
    IF result.raised
    THEN /\ errors' = errors + 1
         /\ UNCHANGED results
    ELSE /\ results' = AddRow(results,
                ResultRow(dataset, result, Str("unknown"), Str("Unknown"),
                          Str("Unknown")))
         /\ UNCHANGED errors

\* one pass of the verbose loop of main(); the first five records have the
\* lengths of their resources and tags printed inside the try
VerboseDataset ==
    /\ pc = "loop" /\ verbose /\ i <= Len(datasets)
    /\ IF i - 1 < 5
            /\ (~HasLen(GetOr(datasets[i], "resources", List(<< >>)))
                \/ ~HasLen(GetOr(datasets[i], "tags", List(<< >>))))
       THEN /\ errors' = errors + 1
            /\ answers' = Append(answers, NoResponses)
            /\ UNCHANGED <<results, scored, probed>>
       ELSE \E reach \in Reaches(datasets[i]) :
            /\ answers' = Append(answers, reach)
            /\ scored' = Append(scored, i)
            /\ probed' = probed \o Probed(datasets[i], MQA_DIMENSIONS, reach)
            /\ VerboseScored(datasets[i],
                    calculate_mqa_score(datasets[i], MQA_DIMENSIONS, reach))
    /\ i' = i + 1
    /\ UNCHANGED <<pc, metadata, field_name, format_value, score, ret,
                   MQA_DIMENSIONS, datasets, verbose,
                   df, fetch, api>>

\* the loop is over: the rows become a table, which is saved, and the ratings
\* are counted; a table without rows has no "rating" column (KeyError)
SaveResults ==
    /\ pc = "loop" /\ i > Len(datasets)
    /\ pc' = IF results = << >> THEN "KeyError" ELSE "detail"
    /\ UNCHANGED <<metadata, field_name, format_value, score, ret,
                   MQA_DIMENSIONS, answers, datasets, verbose, i, results,
                   errors, scored, probed,
                   df, fetch, api>>

\* what follows the scoring of the first record: the detailed report and
\* the summary, or the exception that nothing catches
FirstScored(first_result) ==
    /\ ret' = first_result
    /\ pc' = IF first_result.raised THEN "uncaught" ELSE "done"

\* the first record is scored once more, outside any try, for the detailed
\* report; then the summary is printed
DetailedFirstDataset ==
    /\ pc = "detail"
    /\ IF Len(datasets) > 0
       THEN \E reach \in Reaches(datasets[1]) :
            /\ answers' = Append(answers, reach)
            /\ scored' = Append(scored, 1)
            /\ probed' = probed \o Probed(datasets[1], MQA_DIMENSIONS, reach)
            /\ FirstScored(calculate_mqa_score(datasets[1], MQA_DIMENSIONS,
                                               reach))
       ELSE /\ pc' = "done"
            /\ UNCHANGED <<answers, scored, probed, ret>>
    /\ UNCHANGED <<metadata, field_name, format_value, score, MQA_DIMENSIONS,
                   datasets, verbose, i, results, errors,
                   df, fetch, api>>

Init == BatchInit

Next ==
    \/ ProcessDataset
    \/ VerboseDataset
    \/ SaveResults
    \/ DetailedFirstDataset

Spec == Init /\ [][Next]_vars

-----------------------------------------------------------------------------
(* 4. Serialized cells: what a file holds for a list-valued column *)

\* The texts are ASCII; numbers are integers; True and False are the
\* integers 1 and 0 (bool is a subclass of int and scores as one).

Digits == "0123456789"
DigitSet == {SubSeq(Digits, k, k) : k \in 1..Len(Digits)}

DigitValue ==
    [c \in DigitSet |-> (CHOOSE k \in 1..Len(Digits) : SubSeq(Digits, k, k) = c) - 1]

RECURSIVE NatText(_)
NatText(n) ==
    IF n < 10 THEN SubSeq(Digits, n + 1, n + 1)
    ELSE NatText(n \div 10) \o SubSeq(Digits, (n % 10) + 1, (n % 10) + 1)

IntText(n) == IF n < 0 THEN "-" \o NatText(0 - n) ELSE NatText(n)

\* the body of a string literal between two `quote`s
RECURSIVE Escaped(_, _)
Escaped(s, quote) ==
    IF s = "" THEN ""
    ELSE (CASE Head(s) = "\\" -> "\\\\"
            [] Head(s) = quote -> "\\" \o quote
            [] Head(s) = "\n" -> "\\n"
            [] Head(s) = "\t" -> "\\t"
            [] OTHER -> Head(s))
         \o Escaped(Tail(s), quote)

\* repr() of a str prefers single quotes; json.dumps always writes double
QuoteOf(s, lang) ==
    IF lang = "json" THEN "\""
    ELSE IF IsSubstring("'", s) /\ ~IsSubstring("\"", s) THEN "\"" ELSE "'"

NoneText(lang) == IF lang = "json" THEN "null" ELSE "None"

\* str(value) (lang = "python"), which DataFrame.to_csv writes for a cell
\* that holds a list, and json.dumps(value) (lang = "json")
RECURSIVE Serialized(_, _)

RECURSIVE SerializedItems(_, _, _)
SerializedItems(l, lang, k) ==
    IF k > Len(l) THEN ""
    ELSE (IF k > 1 THEN ", " ELSE "") \o Serialized(l[k], lang)
            \o SerializedItems(l, lang, k + 1)

RECURSIVE SerializedPairs(_, _, _, _)
SerializedPairs(d, keys, lang, k) ==
    IF k > Len(keys) THEN ""
    ELSE (IF k > 1 THEN ", " ELSE "") \o Serialized(keys[k], lang) \o ": "
            \o Serialized(d[keys[k].s], lang)
            \o SerializedPairs(d, keys, lang, k + 1)

Serialized(v, lang) ==
    CASE v.t = "none" -> NoneText(lang)
      [] v.t = "num"  -> IntText(v.n)
      [] v.t = "str"  ->
            QuoteOf(v.s, lang) \o Escaped(v.s, QuoteOf(v.s, lang))
                \o QuoteOf(v.s, lang)
      [] v.t = "list" -> "[" \o SerializedItems(v.l, lang, 1) \o "]"
      [] v.t = "dict" ->
            "{" \o SerializedPairs(v.d, KeysInOrder(DOMAIN v.d), lang, 1) \o "}"

-----------------------------------------------------------------------------
(* json.loads and ast.literal_eval *)

\* the result of a parse: a value and the position after it, or a failure
Fail == [ok |-> FALSE, v |-> None, k |-> 0]
Ok(v, k) == [ok |-> TRUE, v |-> v, k |-> k]

\* the k-th character of text, "" beyond its end
Ch(text, k) == IF 1 <= k /\ k <= Len(text) THEN SubSeq(text, k, k) ELSE ""

StartsWith(text, k, word) ==
    /\ k + Len(word) - 1 <= Len(text)
    /\ SubSeq(text, k, k + Len(word) - 1) = word

RECURSIVE SkipWs(_, _)
SkipWs(text, k) ==
    IF Ch(text, k) \in Whitespace THEN SkipWs(text, k + 1) ELSE k

\* the escapes of a string literal
Unescape(lang) ==
    IF lang = "json"
    THEN ("\"" :> "\"") @@ ("\\" :> "\\") @@ ("/" :> "/") @@ ("n" :> "\n")
            @@ ("t" :> "\t")
    ELSE ("'" :> "'") @@ ("\"" :> "\"") @@ ("\\" :> "\\") @@ ("n" :> "\n")
            @@ ("t" :> "\t")

\* a control character may not stand unescaped in a string literal
RawForbidden(lang) == IF lang = "json" THEN {"\n", "\t"} ELSE {"\n"}

\* a string literal from its first character on, up to the closing quote
RECURSIVE ParseString(_, _, _, _, _)
ParseString(text, lang, k, quote, acc) ==
    IF k > Len(text) THEN Fail
    ELSE IF Ch(text, k) = quote THEN Ok(Str(acc), k + 1)
    ELSE IF Ch(text, k) = "\\"
    THEN IF Ch(text, k + 1) \in DOMAIN Unescape(lang)
         THEN ParseString(text, lang, k + 2, quote,
                          acc \o Unescape(lang)[Ch(text, k + 1)])
         ELSE Fail
    ELSE IF Ch(text, k) \in RawForbidden(lang) THEN Fail
    ELSE ParseString(text, lang, k + 1, quote, acc \o Ch(text, k))

RECURSIVE ParseDigits(_, _, _, _)
ParseDigits(text, k, n, sign) ==
    IF Ch(text, k) \in DigitSet
    THEN ParseDigits(text, k + 1, 10 * n + DigitValue[Ch(text, k)], sign)
    ELSE Ok(Num(sign * n), k)

\* null / true / false, None / True / False
ParseWord(text, lang, k) ==
    IF StartsWith(text, k, NoneText(lang)) THEN Ok(None, k + 4)
    ELSE IF StartsWith(text, k, IF lang = "json" THEN "true" ELSE "True")
    THEN Ok(Num(1), k + 4)
    ELSE IF StartsWith(text, k, IF lang = "json" THEN "false" ELSE "False")
    THEN Ok(Num(0), k + 5)
    ELSE Fail

RECURSIVE ParseValue(_, _, _)
RECURSIVE ParseItems(_, _, _, _)
RECURSIVE ParsePairs(_, _, _, _)

\* a list after one of its items: "]" ends it, "," announces the next item
ListAfterItemAt(text, lang, acc, k) ==
    IF Ch(text, k) = "]" THEN Ok(List(acc), k + 1)
    ELSE IF Ch(text, k) = "," THEN ParseItems(text, lang, SkipWs(text, k + 1), acc)
    ELSE Fail

ListAfterItem(text, lang, acc, item) ==
    IF ~item.ok THEN Fail
    ELSE ListAfterItemAt(text, lang, Append(acc, item.v), SkipWs(text, item.k))

\* the items of a list from position k on; Python allows a comma before "]"
ParseItems(text, lang, k, acc) ==
    IF Ch(text, k) = "]" /\ (acc = << >> \/ lang = "python")
    THEN Ok(List(acc), k + 1)
    ELSE ListAfterItem(text, lang, acc, ParseValue(text, lang, k))

\* a mapping after one of its values
DictAfterValueAt(text, lang, acc, k) ==
    IF Ch(text, k) = "}" THEN Ok(Dict(acc), k + 1)
    ELSE IF Ch(text, k) = "," THEN ParsePairs(text, lang, SkipWs(text, k + 1), acc)
    ELSE Fail

\* a later pair of the same key replaces the earlier one
DictAfterValue(text, lang, acc, key, value) ==
    IF ~value.ok THEN Fail
    ELSE DictAfterValueAt(text, lang, (key :> value.v) @@ acc,
                          SkipWs(text, value.k))

DictAfterKeyAt(text, lang, acc, key, k) ==
    IF Ch(text, k) = ":"
    THEN DictAfterValue(text, lang, acc, key,
                        ParseValue(text, lang, SkipWs(text, k + 1)))
    ELSE Fail

\* the keys of the mappings are strings
DictAfterKey(text, lang, acc, key) ==
    IF ~key.ok \/ key.v.t # "str" THEN Fail
    ELSE DictAfterKeyAt(text, lang, acc, key.v.s, SkipWs(text, key.k))

\* the pairs of a mapping from position k on
ParsePairs(text, lang, k, acc) ==
    IF Ch(text, k) = "}" /\ (acc = EmptyDict \/ lang = "python")
    THEN Ok(Dict(acc), k + 1)
    ELSE DictAfterKey(text, lang, acc, ParseValue(text, lang, k))

\* the value that starts with the character c at position k
ParseValueAt(text, lang, k, c) ==
    CASE c = "[" -> ParseItems(text, lang, SkipWs(text, k + 1), << >>)
      [] c = "{" -> ParsePairs(text, lang, SkipWs(text, k + 1), EmptyDict)
      [] c = "\"" -> ParseString(text, lang, k + 1, c, "")
      [] c = "'" ->
            IF lang = "python" THEN ParseString(text, lang, k + 1, c, "")
            ELSE Fail
      [] c \in DigitSet -> ParseDigits(text, k, 0, 1)
      [] c = "-" ->
            IF Ch(text, k + 1) \in DigitSet THEN ParseDigits(text, k + 1, 0, -1)
            ELSE Fail
      [] OTHER -> ParseWord(text, lang, k)

ParseValue(text, lang, k) == ParseValueAt(text, lang, k, Ch(text, k))

\* the text has to be one value and nothing else
WholeText(text, parsed) ==
    IF parsed.ok /\ SkipWs(text, parsed.k) > Len(text) THEN parsed ELSE Fail

Parsed(text, lang) ==
    WholeText(text, ParseValue(text, lang, SkipWs(text, 1)))

\* json.loads(text): the value, or ok = FALSE for a JSONDecodeError
json_loads(text) == Parsed(text, "json")

\* ast.literal_eval(text): the value, or ok = FALSE for its exception
literal_eval(text) == Parsed(text, "python")

-----------------------------------------------------------------------------
(* 5. Data preparation *)

\* _safe_parse_json, from the fallback on
safe_parse_fallback(json_string, evaluated) ==
    IF evaluated.ok THEN evaluated.v ELSE Str(json_string)

safe_parse_strict(json_string, loaded) ==
    IF loaded.ok THEN loaded.v
    ELSE safe_parse_fallback(json_string, literal_eval(json_string))

\* _safe_parse_json(json_string)
safe_parse_json(json_string) ==
    IF json_string.t # "str" \/ Strip(json_string.s) = "" THEN json_string
    ELSE safe_parse_strict(json_string.s, json_loads(json_string.s))

\* the columns whose cells may hold serialized text
ParsedColumns == {"resources", "tags", "groups", "extras"}

\* the first loop of prepare_data, on one row
ParseColumns(row) ==
    [col \in DOMAIN row |->
        IF col \in ParsedColumns /\ row[col].t = "str"
        THEN safe_parse_json(row[col])
        ELSE row[col]]

\* prepare_data on one row: a table without the column "organization" gets
\* one of None
prepare_data(row) ==
    IF "organization" \in DOMAIN row THEN ParseColumns(row)
    ELSE ("organization" :> None) @@ ParseColumns(row)

\* main() of metadata_quality_assessment.py decodes the same columns with
\* json.loads alone, outside any try
ExampleRaises(row) ==
    \E col \in ParsedColumns \cap DOMAIN row :
        row[col].t = "str" /\ ~json_loads(row[col].s).ok

ExampleColumns(row) ==
    [col \in DOMAIN row |->
        IF col \in ParsedColumns /\ row[col].t = "str"
        THEN json_loads(row[col].s).v
        ELSE row[col]]

\* the mappings of a list-valued cell
CellDicts ==
    { Dict(("format" :> Str("CSV")) @@ ("mimetype" :> Str("text/csv"))
            @@ ("url" :> Str("http://a/x.csv")) @@ ("size" :> Num(100))),
      Dict(("format" :> Str("xyz-unknown")) @@ ("size" :> None)),
      Dict(("name" :> Str("it's"))
            @@ ("description" :> Str("a \"b\" c's\\d\n"))),
      Dict(EmptyDict) }

CellLists(n) == {List(l) : l \in SeqsUpTo(CellDicts, n)}

\* cells that are no serialized list
OtherCells == {Str("n/a"), Str("verkehr"), Str("[{'format': 'CSV'"), Str("5")}

\* a cell of a list-valued column: the list itself (a Parquet file), its
\* text as json.dumps or as str() wrote it (a CSV file), or other text
Cells(lists) ==
    lists \cup {Str(Serialized(v, "json")) : v \in lists}
          \cup {Str(Serialized(v, "python")) : v \in lists}
          \cup OtherCells

\* rows as load_data gives them
LoadedRows ==
    { ("resources" :> c) @@ b :
        b \in {BareFields, FullFields}, c \in Cells(CellLists(MaxResources)) }
    \cup
    { ("tags" :> t) @@ ("groups" :> g) @@ FullFields :
        t \in Cells(CellLists(1)), g \in Cells(CellLists(1)) }

PrepareInit ==
    /\ pc = "loaded"
    /\ df \in LoadedRows
    /\ fetch = NotFetching
    /\ api = NoApi
    /\ metadata = NoFields
    /\ field_name = ""
    /\ format_value = ""
    /\ score = 0
    /\ ret = Unused
    /\ MQA_DIMENSIONS = ReferenceTable
    /\ answers = Unused
    /\ datasets = << >>
    /\ verbose = FALSE
    /\ i = 0
    /\ results = << >>
    /\ errors = 0
    /\ scored = << >>
    /\ probed = << >>

\* run_metadata_assessment.py: main() prepares the loaded row, which is
\* then scored
PrepareData ==
    /\ pc = "loaded"
    /\ metadata' = prepare_data(df)
    /\ pc' = "call"
    /\ UNCHANGED <<field_name, format_value, score, ret, MQA_DIMENSIONS,
                   answers, datasets, verbose, i, results, errors, scored,
                   probed,
                   df, fetch, api>>

\* metadata_quality_assessment.py: main() decodes the loaded row, which is
\* then scored, unless json.loads raises
ExampleMain ==
    /\ pc = "loaded"
    /\ IF ExampleRaises(df)
       THEN pc' = "JSONDecodeError" /\ UNCHANGED metadata
       ELSE pc' = "call" /\ metadata' = ExampleColumns(df)
    /\ UNCHANGED <<field_name, format_value, score, ret, MQA_DIMENSIONS,
                   answers, datasets, verbose, i, results, errors, scored,
                   probed,
                   df, fetch, api>>

SpecPrepare ==
    PrepareInit /\ [][PrepareData \/ ExampleMain \/ CalculateMqaScore]_vars

-----------------------------------------------------------------------------
(* 6. Fetching the metadata: fetch_metadata and the run that follows it *)

\* records of the catalog; they have the same fields, so that the table
\* made of them has no empty cell, and their mappings are one level deep
FetchRecords ==
    { ("id" :> Str("a")) @@ ("title" :> Str("A"))
        @@ ("resources" :> List(<< Dict(("format" :> Str("CSV"))
                                        @@ ("size" :> Num(100))) >>))
        @@ ("organization" :> Dict("title" :> Str("Senat"))),
      ("id" :> Str("b")) @@ ("title" :> Str(""))
        @@ ("resources" :> List(<< >>))
        @@ ("organization" :> Dict("title" :> Str(""))),
      ("id" :> Str("c")) @@ ("title" :> Str("C"))
        @@ ("resources" :> List(<< Dict("format" :> Num(5)) >>))
        @@ ("organization" :> Dict("title" :> Str("Bezirksamt"))) }

Catalogs == SeqsUpTo(FetchRecords, MaxCatalog)

\* the records of the window ?limit=..&offset=.. of the catalog
Window(catalog, offset, limit) ==
    SubSeq(catalog, offset + 1, Min(offset + limit, Len(catalog)))

\* what a request may bring: an exception of requests.get, a body that is
\* no JSON, a JSON body without "result", or the page of the window; an API
\* that ignores the offset serves its first page again and again
Outcomes == {"ConnectionError", "no JSON", "no result", "page"}

Body(outcome, offset, limit) ==
    IF outcome = "page"
    THEN [kind |-> "page",
          result |-> Window(api.catalog,
                            IF api.endless THEN 0 ELSE offset, limit)]
    ELSE [kind |-> outcome, result |-> << >>]

\* pd.json_normalize on one record: the keys of a mapping become the
\* columns "field.key"
DictFields(record) == {f \in DOMAIN record : record[f].t = "dict"}

NestedKeys(record) ==
    UNION {{<<f, sub>> : sub \in DOMAIN record[f].d} : f \in DictFields(record)}

NormalizedColumns(record) ==
    (DOMAIN record \ DictFields(record))
        \cup {at[1] \o "." \o at[2] : at \in NestedKeys(record)}

NormalizedCell(record, col) ==
    IF col \in DOMAIN record THEN record[col]
    ELSE LET at == CHOOSE at \in NestedKeys(record) :
                        at[1] \o "." \o at[2] = col
         IN record[at[1]].d[at[2]]

json_normalize(page) ==
    [k \in 1..Len(page) |->
        [col \in NormalizedColumns(page[k]) |-> NormalizedCell(page[k], col)]]

\* pd.concat(frames)
RECURSIVE concat(_)
concat(frames) ==
    IF frames = << >> THEN << >> ELSE Head(frames) \o concat(Tail(frames))

\* variant: the offset advances by one record
NextOffset_one(offset, limit) == offset + 1

\* offset += limit
NextOffset(offset, limit) == offset + limit

FetchInit ==
    /\ pc = "request"
    /\ \E catalog \in Catalogs, endless \in BOOLEAN :
        api = [catalog |-> catalog, endless |-> endless, requested |-> << >>,
               failed |-> FALSE]
    /\ \E limit \in 1..MaxLimit :
        fetch = [limit |-> limit, offset |-> 0, frames |-> << >>,
                 res |-> Unused]
    /\ verbose \in BOOLEAN
    /\ datasets = << >>
    /\ i = 1
    /\ results = << >>
    /\ errors = 0
    /\ scored = << >>
    /\ probed = << >>
    /\ answers = << >>
    /\ df = NoFields
    /\ metadata = NoFields
    /\ field_name = ""
    /\ format_value = ""
    /\ score = 0
    /\ ret = Unused
    /\ MQA_DIMENSIONS = ReferenceTable

\* requests.get(url) for the window at the current offset (line 65); an
\* exception leaves the loop (lines 79-81)
Request ==
    /\ pc = "request"
    /\ Len(api.requested) < MaxRequests
    /\ \E outcome \in Outcomes :
        /\ api' = [api EXCEPT
                    !.requested = Append(@,
                        [offset |-> fetch.offset, limit |-> fetch.limit,
                         body |-> Body(outcome, fetch.offset, fetch.limit)]),
                    !.failed = @ \/ outcome = "ConnectionError"]
        /\ IF outcome = "ConnectionError"
           THEN pc' = "after loop" /\ UNCHANGED fetch
           ELSE /\ pc' = "response"
                /\ fetch' = [fetch EXCEPT
                                !.res = Body(outcome, fetch.offset, fetch.limit)]
    /\ UNCHANGED <<metadata, field_name, format_value, score, ret,
                   MQA_DIMENSIONS, answers, datasets, verbose, i, results,
                   errors, scored, probed, df>>

\* the rest of the loop body (lines 66-77): res.json() raises for a body
\* that is no JSON; an absent or empty "result" leaves the loop; any other
\* page becomes a frame and the offset advances
Receive ==
    /\ pc = "response"
    /\ CASE fetch.res.kind = "no JSON" ->
                /\ api' = [api EXCEPT !.failed = TRUE]
                /\ pc' = "after loop"
                /\ UNCHANGED fetch
         [] fetch.res.kind = "no result" \/ fetch.res.result = << >> ->
                /\ pc' = "after loop"
                /\ UNCHANGED <<fetch, api>>
         [] OTHER ->
                /\ fetch' = [fetch EXCEPT
                        !.frames = Append(@, json_normalize(fetch.res.result)),
                        !.offset = NextOffset(@, fetch.limit)]
                /\ pc' = "request"
                /\ UNCHANGED api
    /\ UNCHANGED <<metadata, field_name, format_value, score, ret,
                   MQA_DIMENSIONS, answers, datasets, verbose, i, results,
                   errors, scored, probed, df>>

\* main() on the table that fetch_metadata returned: prepare_data and
\* to_dict("records")
PreparedRecords(data) == [k \in 1..Len(data) |-> prepare_data(data[k])]

\* after the loop (lines 83-104): without a frame fetch_metadata raises
\* ValueError, which main() does not catch; otherwise it returns the frames
\* put together, and main() goes on to prepare and score them
FetchReturn ==
    /\ pc = "after loop"
    /\ IF fetch.frames = << >>
       THEN pc' = "ValueError" /\ UNCHANGED datasets
       ELSE /\ datasets' = PreparedRecords(concat(fetch.frames))
            /\ pc' = "loop"
    /\ UNCHANGED <<metadata, field_name, format_value, score, ret,
                   MQA_DIMENSIONS, answers, verbose, i, results, errors,
                   scored, probed, df, fetch, api>>

FetchNext ==
    \/ Request
    \/ Receive
    \/ FetchReturn
    \/ ProcessDataset
    \/ VerboseDataset
    \/ SaveResults
    \/ DetailedFirstDataset

SpecFetch == FetchInit /\ [][FetchNext]_vars

\* fetch_metadata alone, up to its return
FetchLoopNext ==
    \/ Request
    \/ Receive
    \/ FetchReturn

\* the function is sequential and goes on as long as it has a step to take
SpecFetchLoop == FetchInit /\ [][FetchLoopNext]_vars /\ WF_vars(FetchLoopNext)

-----------------------------------------------------------------------------
(* Properties *)

Returned == pc = "return"
Scored == pc = "return" /\ ~ret.raised

RECURSIVE SumPoints(_)
SumPoints(details) ==
    IF details = << >> THEN 0
    ELSE Head(details).points + SumPoints(Tail(details))

MaxOf(S) == CHOOSE m \in S : \A x \in S : x <= m

\* C1: whenever calculate_mqa_score returns a result, its total_score is the
\* sum of the five dimension scores and lies in 0..405, whatever the
\* reachability checker answered.
C1_TotalIsSumOfDimensions ==
    Scored =>
        /\ ret.total_score =
                ret.dimension_scores["Findability"]
              + ret.dimension_scores["Accessibility"]
              + ret.dimension_scores["Interoperability"]
              + ret.dimension_scores["Reusability"]
              + ret.dimension_scores["Context"]
        /\ 0 <= ret.total_score
        /\ ret.total_score <= 405

\* a record that earns every point while the checker answered
C1_Witness ==
    /\ Scored
    /\ ret.total_score = 405
    /\ ~answers.primary.raised

\* C2: every dimension score lies between 0 and the ceiling of its
\* dimension, also under an indicator table whose passing weights add up to
\* more than the ceiling.
C2_DimensionWithinCeiling ==
    Scored =>
        \A k \in 1..Len(Dimensions) :
            /\ 0 <= ret.dimension_scores[Dimensions[k]]
            /\ ret.dimension_scores[Dimensions[k]]
                    <= MAX_POINTS_PER_DIMENSION[Dimensions[k]]

\* the points of the passing indicators of a dimension exceed its ceiling
C2_Witness ==
    /\ Scored
    /\ \E k \in 1..Len(Dimensions) :
        SumPoints(ret.detailed_results[Dimensions[k]])
            > MAX_POINTS_PER_DIMENSION[Dimensions[k]]

\* the labels of the four ratings (lines 536-542)
Excellent == "Ausgezeichnet"
Good == "Gut"
Sufficient == "Ausreichend"
Poor == "Mangelhaft"

Bands == {0..120, 121..220, 221..350, 351..405}

\* C3: get_final_rating answers Poor on 0..120, Sufficient on 121..220, Good
\* on 221..350, Excellent on 351..405 and Poor outside 0..405; every score of
\* 0..405 lies in exactly one band.
C3_RatingBands ==
    Returned =>
        /\ score \in 0..120 => ret = Poor
        /\ score \in 121..220 => ret = Sufficient
        /\ score \in 221..350 => ret = Good
        /\ score \in 351..405 => ret = Excellent
        /\ (score < 0 \/ score > 405) => ret = Poor
        /\ score \in 0..405 => Cardinality({b \in Bands : score \in b}) = 1

\* the lowest Excellent score
C3_Witness == Returned /\ score = 351 /\ ret = Excellent

\* a record lacks a non-empty id or title
LacksIdOrTitle(dataset) ==
    \E key \in {"id", "title"} :
        \/ key \notin DOMAIN dataset
        \/ dataset[key] = None
        \/ dataset[key] = Str("")

\* C4: in a batch run, standard or verbose, a record without a non-empty id
\* or title is never handed to the scoring function, so that the rows and the
\* errors all stem from the other records.
C4_MissingIdOrTitleNeverScored ==
    LET complete == {j \in 1..Len(datasets) : ~LacksIdOrTitle(datasets[j])}
    IN /\ \A k \in 1..Len(scored) : scored[k] \in complete
       /\ Len(results) + errors
            <= Cardinality({j \in complete : j < i})

\* C5: a scoring exception of one record never ends the run: no run stops on
\* an exception that calculate_mqa_score raised.
C5_ScoringExceptionNeverAbortsRun == pc # "uncaught"

\* the indices below n of the records that were neither skipped nor errored
KeptBelow(n) ==
    SelectSeq([j \in 1..(n - 1) |-> j],
              LAMBDA j :
                /\ ~LacksIdOrTitle(datasets[j])
                /\ ~calculate_mqa_score(datasets[j], MQA_DIMENSIONS,
                                        answers[j]).raised)

RowColumns ==
    {"id", "title", "organization", "total_score", "rating",
     "Findability_score", "Accessibility_score", "Interoperability_score",
     "Reusability_score", "Context_score"}

\* C6: the rows of process_datasets are, in input order, one flat row per
\* record that was neither skipped nor errored.
C6_RowsInInputOrder ==
    (~verbose /\ pc \in {"loop", "detail", "done", "KeyError", "uncaught"}) =>
        LET kept == KeptBelow(i) IN
        /\ Len(results) = Len(kept)
        /\ \A k \in 1..Len(kept) :
            LET dataset == datasets[kept[k]]
                mqa == calculate_mqa_score(dataset, MQA_DIMENSIONS,
                                           answers[kept[k]])
            IN /\ DOMAIN results[k] = RowColumns
               /\ results[k].id = dataset["id"]
               /\ results[k].title = dataset["title"]
               /\ results[k].total_score = mqa.total_score
               /\ results[k].rating = mqa.rating
               /\ results[k].organization =
                    IF "organization" \in DOMAIN dataset
                        /\ dataset["organization"].t = "dict"
                        /\ "title" \in DOMAIN dataset["organization"].d
                    THEN dataset["organization"].d["title"]
                    ELSE Str("")
               /\ results[k].Findability_score
                    = mqa.dimension_scores["Findability"]
               /\ results[k].Accessibility_score
                    = mqa.dimension_scores["Accessibility"]
               /\ results[k].Interoperability_score
                    = mqa.dimension_scores["Interoperability"]
               /\ results[k].Reusability_score
                    = mqa.dimension_scores["Reusability"]
               /\ results[k].Context_score = mqa.dimension_scores["Context"]

\* a standard run of three records that ends with two rows of different
\* records
C6_Witness ==
    /\ ~verbose
    /\ pc = "done"
    /\ Len(datasets) = 3
    /\ Len(results) = 2
    /\ results[1].id # results[2].id

\* the resource-local score of one resource: the weights of the
\* Interoperability indicators that pass on the record with that resource
\* as its current resource
RECURSIVE LocalScore(_, _, _)
LocalScore(meta, resource, k) ==
    IF k = 0 THEN 0
    ELSE LET ind == MQA_DIMENSIONS["Interoperability"][k]
             passes == check_func(ind.name, ("resource" :> resource) @@ meta,
                                  answers) = "T"
         IN (IF passes THEN ind.max_points ELSE 0)
                + LocalScore(meta, resource, k - 1)

\* C7: the Interoperability score is the greatest resource-local score over
\* the resources of the list, at most 110, and 0 for a record without
\* resources (no field or an empty list).
C7_InteroperabilityIsBestResource ==
    Scored =>
        LET interop == ret.dimension_scores["Interoperability"]
            n == Len(MQA_DIMENSIONS["Interoperability"])
        IN IF "resources" \notin DOMAIN metadata
           THEN interop = 0
           ELSE LET resources == metadata["resources"] IN
                IF resources.t # "list" THEN TRUE
                ELSE IF Len(resources.l) = 0 THEN interop = 0
                ELSE interop =
                        Min(110, MaxOf({LocalScore(metadata, resources.l[k], n) :
                                            k \in 1..Len(resources.l)}))

\* a record with two resources whose best resource earns more than the
\* indicator that is granted unconditionally
C7_Witness ==
    /\ Scored
    /\ "resources" \in DOMAIN metadata
    /\ metadata["resources"].t = "list"
    /\ Len(metadata["resources"].l) >= 2
    /\ ret.dimension_scores["Interoperability"] >= 50

\* the sentinels of a hidden null
Sentinels ==
    {"", "null", "[]", "{}", "nan", "none", "ohne angabe", "keine angabe",
     "nichts", "n/a"}

StringAsked ==
    /\ Returned
    /\ field_name \in DOMAIN metadata
    /\ metadata[field_name].t = "str"

\* C8: for a string value, check_presence answers false exactly when the
\* string, trimmed and lower-cased, is one of the sentinels.
C8_StringAbsentIffTrimmedSentinel ==
    StringAsked =>
        (ret = FALSE <=> Lower(Strip(metadata[field_name].s)) \in Sentinels)

\* C9: for a value that is not a string, check_presence answers false for an
\* absent key, None, an empty list, a list of falsy elements only and an
\* empty mapping, and true for a list with a truthy element, a mapping with
\* a key and any other value, the number 0 included; the record is left as
\* it was.
C9_State ==
    (Returned /\ ~StringAsked) =>
        IF field_name \notin DOMAIN metadata THEN ret = FALSE
        ELSE LET value == metadata[field_name] IN
            CASE value.t = "none" -> ret = FALSE
              [] value.t = "list" ->
                    ret = (\E k \in 1..Len(value.l) : value.l[k] \notin Falsy)
              [] value.t = "dict" -> ret = (value.d # EmptyDict)
              [] value.t = "num" -> ret = TRUE

C9_NonStringPresence == [](C9_State) /\ [][metadata' = metadata]_vars

\* a list of two falsy elements is absent
C9_Witness ==
    /\ Returned
    /\ field_name \in DOMAIN metadata
    /\ metadata[field_name].t = "list"
    /\ Len(metadata[field_name].l) = 2
    /\ ret = FALSE

Contains(whole, part) == IsSubstring(part, whole)

MimeTypes == {ACCEPTED_MIME_TYPES[k] : k \in 1..Len(ACCEPTED_MIME_TYPES)}

Tokens ==
    {"csv", "json", "xml", "wfs", "wms", "pdf", "zip", "xls", "xlsx", "html",
     "geojson", "gml", "kml", "shp", "gpkg", "gis"}

\* C10 as stated: check_format_in_register answers true exactly for a
\* non-empty format that, lower-cased, is part of an accepted MIME type,
\* has an accepted MIME type as a part, or is or has as a part a common token.
C10_EitherDirection ==
    Returned =>
        ret = /\ format_value # ""
              /\ \/ \E mime \in MimeTypes :
                        \/ Contains(mime, Lower(format_value))
                        \/ Contains(Lower(format_value), mime)
                 \/ \E token \in Tokens :
                        \/ Lower(format_value) = token
                        \/ Contains(Lower(format_value), token)

\* C10 as amended: check_format_in_register answers true exactly for a
\* non-empty format that, lower-cased, is part of an accepted MIME type or is
\* or has as a part a common token.
C10_FormatPartOfMimeOrHasToken ==
    Returned =>
        ret = /\ format_value # ""
              /\ \/ \E mime \in MimeTypes : Contains(mime, Lower(format_value))
                 \/ \E token \in Tokens :
                        \/ Lower(format_value) = token
                        \/ Contains(Lower(format_value), token)

\* a format that has an accepted MIME type as a part and is not registered
C10_Witness ==
    /\ Returned
    /\ \E mime \in MimeTypes : Contains(Lower(format_value), mime)
    /\ ret = FALSE

ListColumns == {"resources", "tags", "groups"}

\* the texts of every list of mappings
SerializedCells ==
    [v \in CellLists(MaxResources) |->
        {Str(Serialized(v, "json")), Str(Serialized(v, "python"))}]

IsSerialized(cell) == \E v \in DOMAIN SerializedCells : cell \in SerializedCells[v]

\* the list that a cell is the text of
NativeOf(cell) ==
    IF IsSerialized(cell)
    THEN CHOOSE v \in DOMAIN SerializedCells : cell \in SerializedCells[v]
    ELSE cell

\* the same row arriving with its fields already parsed
PreParsed(row) ==
    [col \in DOMAIN row |->
        IF col \in ListColumns THEN NativeOf(row[col]) ELSE row[col]]

\* a list-valued field of the row arrived as the text of a list of mappings,
\* and none as a text that is no list
ArrivedSerialized(row) ==
    /\ \E col \in ListColumns \cap DOMAIN row : IsSerialized(row[col])
    /\ \A col \in ListColumns \cap DOMAIN row :
            row[col].t = "str" => IsSerialized(row[col])

\* C11: a row whose resources, tags or groups arrive as the text of a list
\* of mappings is decoded before it is scored, whether the text is JSON or a
\* Python literal, and its scoring result is that of the same row arriving
\* already parsed.
C11_SerializedFieldScoresAsParsed ==
    ArrivedSerialized(df) =>
        /\ pc # "JSONDecodeError"
        /\ pc \in {"call", "return"} =>
                \A col \in ListColumns \cap DOMAIN df :
                    metadata[col] = PreParsed(df)[col]
        /\ pc = "return" =>
                ret = calculate_mqa_score(PreParsed(df), MQA_DIMENSIONS, answers)

\* the run has left fetch_metadata and gone on to score what it returned
ScoringFetched == pc \in {"loop", "detail", "done", "KeyError", "uncaught"}

\* C12: once a request of fetch_metadata has failed (network or parse), the
\* run never goes on to score: no record of the pages fetched before the
\* failure is handed to the scoring function.
C12_FetchFailureIsFatal ==
    api.failed => (~ScoringFetched /\ scored = << >>)

\* fetch_metadata is in its loop
InFetchLoop == pc \in {"request", "response"}

\* a body whose result page is empty or missing
EmptyPage(body) ==
    body.kind = "no result" \/ (body.kind = "page" /\ body.result = << >>)

\* the non-empty pages received so far, in request order, put together
RECURSIVE PagesOf(_)
PagesOf(requested) ==
    IF requested = << >> THEN << >>
    ELSE (IF Head(requested).body.kind = "page"
          THEN json_normalize(Head(requested).body.result)
          ELSE << >>)
         \o PagesOf(Tail(requested))

\* the windows are requested in order, one request each, and none after an
\* empty page
WindowsInOrder ==
    /\ \A k \in 1..Len(api.requested) :
        /\ api.requested[k].offset = (k - 1) * fetch.limit
        /\ api.requested[k].limit = fetch.limit
    /\ \A k \in 1..(Len(api.requested) - 1) :
        ~EmptyPage(api.requested[k].body)

\* an empty page has arrived and waits to be looked at
EmptyPending == pc = "response" /\ EmptyPage(fetch.res)

\* C18 as stated: the windows 0, limit, 2*limit, ... are requested in order,
\* none after the first empty page, and once the loop is over fetch_metadata
\* returns the non-empty pages put together in request order (also when
\* there is none); an empty page ends the loop.
C18_State ==
    /\ WindowsInOrder
    /\ (pc \notin {"request", "response", "after loop"} /\ ~api.failed) =>
        /\ pc # "ValueError"
        /\ datasets = PreparedRecords(PagesOf(api.requested))

C18_AmendedState ==
    /\ WindowsInOrder
    /\ pc \notin {"request", "response", "after loop"} =>
        /\ pc = "ValueError" <=> PagesOf(api.requested) = << >>
        /\ pc # "ValueError" =>
                datasets = PreparedRecords(PagesOf(api.requested))

RECURSIVE DetailOf(_, _)
DetailOf(details, name) ==
    IF Head(details).indicator = name THEN Head(details)
    ELSE DetailOf(Tail(details), name)

\* the valid license identifiers, in small letters
ValidLicenseIds ==
    {"cc-zero", "cc-by", "cc-by-sa", "cc-by/4.0", "cc-nc", "dl-de-zero-2.0",
     "dl-de-by-2.0", "odc-odbl", "cc by 3.0 de", "other-closed"}

\* the field counts as present: it is there, is not None, is no string that
\* trimmed and in small letters is a sentinel, no list without a truthy
\* element and no empty mapping
Present(dataset, field) ==
    /\ field \in DOMAIN dataset
    /\ LET value == dataset[field] IN
        CASE value.t = "none" -> FALSE
          [] value.t = "str" -> Lower(Strip(value.s)) \notin Sentinels
          [] value.t = "list" ->
                \E k \in 1..Len(value.l) : value.l[k] \notin Falsy
          [] value.t = "dict" -> value.d # EmptyDict
          [] value.t = "num" -> TRUE

\* C13: the License indicator passes, for 20 points, exactly when license_id
\* is present; the License Vocabulary indicator passes, for 10 points,
\* exactly when license_id is present and is, letter case aside, one of the
\* valid identifiers; "dl-de-by-2.0" in any letter case earns both.
C13_LicenseIndicators ==
    Scored =>
        LET license == DetailOf(ret.detailed_results["Reusability"], "License")
            vocabulary == DetailOf(ret.detailed_results["Reusability"],
                                   "License Vocabulary")
            present == Present(metadata, "license_id")
        IN /\ license.passed = present
           /\ license.points = IF present THEN 20 ELSE 0
           /\ vocabulary.passed =
                (present /\ Lower(metadata["license_id"].s) \in ValidLicenseIds)
           /\ vocabulary.points = IF vocabulary.passed THEN 10 ELSE 0
           /\ ("license_id" \in DOMAIN metadata
                    /\ metadata["license_id"].t = "str"
                    /\ Lower(metadata["license_id"].s) = "dl-de-by-2.0") =>
                license.points + vocabulary.points = 30

\* the record names an organization: a nested mapping with a present title
HasOrganizationTitle(dataset) ==
    /\ "organization" \in DOMAIN dataset
    /\ dataset["organization"].t = "dict"
    /\ check_presence(dataset["organization"].d, "title")

\* C14: the Publisher indicator passes, for 10 points, for every record with
\* a present author and for every record whose organization is a nested
\* mapping with a present title; it fails only when neither is present.
C14_PublisherByAuthorOrOrganization ==
    Scored =>
        ((check_presence(metadata, "author") \/ HasOrganizationTitle(metadata))
            => DetailOf(ret.detailed_results["Reusability"],
                        "Publisher").points = 10)

\* the answer of requests.head makes the URL reachable
Reachable(response) == ~response.raised /\ response.status_code < 400

\* the same calls of the checker, every one of them failing
AllFailing(reach) ==
    [primary |-> [raised |-> TRUE, status_code |-> 0],
     download |-> [k \in DOMAIN reach.download |->
                        [raised |-> TRUE, status_code |-> 0]]]

\* the two results differ in the Accessibility dimension at most
SameBesidesAccessibility(one, other) ==
    /\ one.raised = other.raised
    /\ ~one.raised =>
        \A d \in {"Findability", "Interoperability", "Reusability", "Context"} :
            one.dimension_scores[d] = other.dimension_scores[d]

\* C15: the reachability check answers and never raises: a URL is reachable
\* exactly when the request was answered with a status code below 400, and
\* unreachable when the request raised or the URL is not a string. What the
\* checker answers decides the two Accessibility indicators only: it
\* neither makes the record an errored record nor changes another dimension.
C15_ReachabilityNeverRaises ==
    Returned =>
        /\ SameBesidesAccessibility(ret,
                calculate_mqa_score(metadata, MQA_DIMENSIONS,
                                    AllFailing(answers)))
        /\ ~ret.raised =>
            /\ DetailOf(ret.detailed_results["Accessibility"],
                        "Access URL Accessibility").passed =
                    /\ check_presence(metadata, "url")
                    /\ metadata["url"].t = "str"
                    /\ Reachable(answers.primary)
            /\ DetailOf(ret.detailed_results["Accessibility"],
                        "Download URL Accessibility").passed =
                    /\ check_presence(metadata, "resources")
                    /\ \E k \in DOMAIN answers.download :
                            Reachable(answers.download[k])

\* the request for the primary URL raised and a resource URL answered 404:
\* the record is scored and both indicators fail
C15_Witness ==
    /\ Scored
    /\ check_presence(metadata, "url")
    /\ metadata["url"].t = "str"
    /\ answers.primary.raised
    /\ DOMAIN answers.download # {}
    /\ \A k \in DOMAIN answers.download :
            ~answers.download[k].raised /\ answers.download[k].status_code = 404
    /\ DetailOf(ret.detailed_results["Accessibility"],
                "Access URL Accessibility").points = 0
    /\ DetailOf(ret.detailed_results["Accessibility"],
                "Download URL Accessibility").points = 0
    /\ ret.dimension_scores["Accessibility"] = 20

\* the open formats, in small letters
OpenFormats ==
    {"csv", "json", "xml", "gml", "geojson", "gpkg", "txt", "markdown", "md",
     "html", "htm", "zip", "rdf", "nt", "ttl", "n3", "jsonld", "trig", "wfs",
     "wms"}

\* the resource is a mapping with a format that is a string
HasFormatText(resource) ==
    /\ resource.t = "dict"
    /\ "format" \in DOMAIN resource.d
    /\ resource.d["format"].t = "str"

\* the format of the resource is not null-like: trimmed and in small
\* letters it is no sentinel
HasFormat(resource) ==
    /\ HasFormatText(resource)
    /\ Lower(Strip(resource.d["format"].s)) \notin Sentinels

HasOpenFormat(resource) ==
    HasFormatText(resource) /\ Lower(resource.d["format"].s) \in OpenFormats

HasResourceList(dataset) ==
    "resources" \in DOMAIN dataset /\ dataset["resources"].t = "list"

\* the record without the last resource of its list
WithoutLastResource(dataset) ==
    [dataset EXCEPT !["resources"] =
        List(SubSeq(@.l, 1, Len(@.l) - 1))]

\* the indicator `name` passed in the Interoperability breakdown of `result`
InteroperabilityPassed(result, name) ==
    DetailOf(result.detailed_results["Interoperability"], name).passed

\* an indicator that passed in the result `before` passed in `after`
StaysPassed(before, after, name) ==
    (~before.raised /\ InteroperabilityPassed(before, name))
        => InteroperabilityPassed(after, name)

\* C16: for a scored record with a resource list, Format passes exactly
\* when some resource has a format that is not null-like and Non-proprietary
\* passes exactly when the format of some resource is, in small letters, an
\* open format, whatever the other resources are; an indicator that passed
\* for the record without its last resource passes for the record.
C16_FormatIndicatorsExistential ==
    (Scored /\ HasResourceList(metadata)) =>
        LET resources == metadata["resources"].l IN
        /\ InteroperabilityPassed(ret, "Format") =
                (\E k \in 1..Len(resources) : HasFormat(resources[k]))
        /\ InteroperabilityPassed(ret, "Non-proprietary") =
                (\E k \in 1..Len(resources) : HasOpenFormat(resources[k]))
        /\ Len(resources) > 0 =>
            /\ StaysPassed(calculate_mqa_score(WithoutLastResource(metadata),
                                               MQA_DIMENSIONS, answers),
                           ret, "Format")
            /\ StaysPassed(calculate_mqa_score(WithoutLastResource(metadata),
                                               MQA_DIMENSIONS, answers),
                           ret, "Non-proprietary")

\* the weights of the first k Interoperability indicators that pass on the
\* record as a whole
RECURSIVE DatasetWideScore(_, _)
DatasetWideScore(meta, k) ==
    IF k = 0 THEN 0
    ELSE LET ind == MQA_DIMENSIONS["Interoperability"][k] IN
        (IF check_func(ind.name, meta, answers) = "T" THEN ind.max_points ELSE 0)
            + DatasetWideScore(meta, k - 1)

Reverse(seq) == [k \in 1..Len(seq) |-> seq[Len(seq) + 1 - k]]

\* the record with its resources in the opposite order
ResourcesReversed(dataset) ==
    [dataset EXCEPT !["resources"] = List(Reverse(@.l))]

\* C17: for a scored record with at least one resource, the resource-local
\* score of every resource is the sum of the weights of the Interoperability
\* indicators that pass on the record as a whole; the Interoperability
\* score is that sum, at most 110, and is the same for the record with its
\* resources in the opposite order.
C17_ResourceLocalScoreIsDatasetWide ==
    (Scored /\ HasResourceList(metadata) /\ Len(metadata["resources"].l) > 0) =>
        LET resources == metadata["resources"].l
            indicators == MQA_DIMENSIONS["Interoperability"]
        IN /\ \A k \in 1..Len(resources) :
                ResourceScore(ResourceMetadata(metadata, resources[k]),
                              indicators, answers, 1, 0)
                    = DatasetWideScore(metadata, Len(indicators))
           /\ ret.dimension_scores["Interoperability"] =
                Min(110, DatasetWideScore(metadata, Len(indicators)))
           /\ calculate_mqa_score(ResourcesReversed(metadata), MQA_DIMENSIONS,
                                  answers).dimension_scores["Interoperability"]
                = ret.dimension_scores["Interoperability"]

\* two different resources that pass different indicators: the spreadsheet
\* is machine-readable, the archive has an accepted media type
C17_Witness ==
    /\ Scored
    /\ HasResourceList(metadata)
    /\ Len(metadata["resources"].l) = 2
    /\ HasFormat(metadata["resources"].l[1])
    /\ ~HasFormatText(metadata["resources"].l[2])
    /\ InteroperabilityPassed(ret, "Machine-readability")
    /\ InteroperabilityPassed(ret, "Media Type")
    /\ ~InteroperabilityPassed(ret, "Non-proprietary")
    /\ ret.dimension_scores["Interoperability"] = 90

\* the entries of a breakdown give the weight for a passed indicator and
\* nothing for a failed one
RECURSIVE PointsAreWeights(_)
PointsAreWeights(details) ==
    \/ details = << >>
    \/ /\ Head(details).points =
            (IF Head(details).passed THEN Head(details).max_points ELSE 0)
       /\ PointsAreWeights(Tail(details))

\* the ceiling of each dimension
Ceilings ==
    [Findability |-> 100, Accessibility |-> 100, Interoperability |-> 110,
     Reusability |-> 75, Context |-> 20]

\* C19: in every scoring result and for each of the five dimensions, every
\* entry of the breakdown gives the weight of the indicator if it passed and
\* 0 otherwise, and the dimension score is the sum of the points of the
\* breakdown, at most the ceiling of the dimension; so also for
\* Interoperability and for records without resources.
C19_BreakdownMatchesScore ==
    Scored =>
        \A d \in DOMAIN Ceilings :
            /\ PointsAreWeights(ret.detailed_results[d])
            /\ ret.dimension_scores[d] =
                    Max(0, Min(Ceilings[d], SumPoints(ret.detailed_results[d])))

\* the resource is a mapping with a url that is a non-empty string
HasUrlText(resource) ==
    /\ resource.t = "dict"
    /\ "url" \in DOMAIN resource.d
    /\ resource.d["url"].t = "str"
    /\ resource.d["url"].s # ""

\* the url values of the resources, in small letters, in resource order
RECURSIVE ResourceUrlValues(_)
ResourceUrlValues(resources) ==
    IF resources = << >> THEN << >>
    ELSE (IF HasUrlText(Head(resources))
          THEN << Str(Lower(Head(resources).d["url"].s)) >>
          ELSE << >>) \o ResourceUrlValues(Tail(resources))

\* the url values of a record: the primary url, then those of its resources
UrlValues(dataset) ==
    (IF "url" \in DOMAIN dataset /\ Truthy(dataset["url"])
     THEN << dataset["url"] >> ELSE << >>)
        \o (IF HasResourceList(dataset)
            THEN ResourceUrlValues(dataset["resources"].l) ELSE << >>)

\* the elements of `part` occur in `whole` in the same order
RECURSIVE IsSubsequence(_, _)
IsSubsequence(part, whole) ==
    IF part = << >> THEN TRUE
    ELSE IF whole = << >> THEN FALSE
    ELSE IF Head(part) = Head(whole)
         THEN IsSubsequence(Tail(part), Tail(whole))
         ELSE IsSubsequence(part, Tail(whole))

\* how many resource URLs are asked for: up to the first that is reachable
RECURSIVE AskedUntilReachable(_, _)
AskedUntilReachable(responses, k) ==
    IF k > Len(responses) THEN Len(responses)
    ELSE IF Reachable(responses[k]) THEN k
    ELSE AskedUntilReachable(responses, k + 1)

\* C20: whatever the checker answers, Download URL Accessibility passes
\* only if Download URL Presence passes and the Accessibility score is one
\* of 0, 20, 50, 70, 100; the values handed to the checker are url values
\* of the record, the primary url first and the resource URLs in resource
\* order up to the first reachable one, and none for a record without a
\* url value.
C20_DownloadAccessibilityNeedsPresence ==
    /\ Scored =>
        /\ DetailOf(ret.detailed_results["Accessibility"],
                    "Download URL Accessibility").passed
                => DetailOf(ret.detailed_results["Accessibility"],
                            "Download URL Presence").passed
        /\ ret.dimension_scores["Accessibility"] \in {0, 20, 50, 70, 100}
        /\ Len(probed) = (IF check_presence(metadata, "url") THEN 1 ELSE 0)
                            + AskedUntilReachable(answers.download, 1)
    /\ Returned =>
        /\ IsSubsequence(probed, UrlValues(metadata))
        /\ UrlValues(metadata) = << >> => probed = << >>

\* the primary URL and the first resource URL are unreachable, the second
\* resource URL is reachable: three values are handed to the checker
C20_Witness ==
    /\ Scored
    /\ Len(probed) = 3
    /\ probed[1] = metadata["url"]
    /\ probed[2] # probed[3]
    /\ ~Reachable(answers.primary)
    /\ ~Reachable(answers.download[1])
    /\ Reachable(answers.download[2])
    /\ ret.dimension_scores["Accessibility"] = 50


====
